---- MODULE Spec2Model ----
(***************************************************************************)
(* Model of frigate/scripts/main.py: the export / upload-and-cleanup /     *)
(* stuck-recovery cycles of the Frigate export service, the recording      *)
(* service's export list, the S3 bucket and the scheduler that starts the  *)
(* three jobs.                                                             *)
(*                                                                         *)
(* Strings are sequences of one-character strings, so that split,          *)
(* basename, strip and strptime are computed the way Python computes them. *)
(***************************************************************************)
EXTENDS Integers, Sequences, FiniteSets, TLC

(***************************************************************************)
(* Bounds of the model.                                                    *)
(***************************************************************************)
MaxTicks == 1        \* clock readings after the first one
MaxExports == 2      \* export ids the recording service hands out
MaxSlots == 2        \* executor threads that could run one job at once
MaxSeconds == 1500   \* seconds of clock readings a function is evaluated at
MaxRuns == 5         \* consecutive triggers of the export job that are followed

(***************************************************************************)
(* Characters and strings.                                                 *)
(***************************************************************************)
DigitChars == <<"0", "1", "2", "3", "4", "5", "6", "7", "8", "9">>

IsDigit(c) == \E i \in 1..10 : DigitChars[i] = c

DigitVal(c) == (CHOOSE i \in 1..10 : DigitChars[i] = c) - 1

Pad2(n) == <<DigitChars[((n \div 10) % 10) + 1], DigitChars[(n % 10) + 1]>>

Pad4(n) == Pad2(n \div 100) \o Pad2(n % 100)

\* str.isdigit(): non-empty and every character a digit
isdigit(s) == Len(s) > 0 /\ \A i \in 1..Len(s) : IsDigit(s[i])

Contains(s, c) == \E i \in 1..Len(s) : s[i] = c

RECURSIVE IndexFrom(_, _, _)
IndexFrom(s, c, i) == IF s[i] = c THEN i ELSE IndexFrom(s, c, i + 1)

\* the position of the first c in s, which holds one
IndexOf(s, c) == IndexFrom(s, c, 1)

\* str.split(c): the pieces between the occurrences of c, empty pieces kept
RECURSIVE split(_, _)
split(s, c) ==
    IF ~Contains(s, c) THEN <<s>>
    ELSE LET i == IndexOf(s, c)
         IN  <<SubSeq(s, 1, i - 1)>> \o split(SubSeq(s, i + 1, Len(s)), c)

\* os.path.basename / Path(...).name: what follows the last "/"
RECURSIVE basename(_)
basename(p) ==
    IF ~Contains(p, "/") THEN p
    ELSE basename(SubSeq(p, IndexOf(p, "/") + 1, Len(p)))

\* str.strip(): leading and trailing blanks removed
RECURSIVE strip(_)
strip(s) ==
    IF Len(s) > 0 /\ s[1] = " " THEN strip(Tail(s))
    ELSE IF Len(s) > 0 /\ s[Len(s)] = " " THEN strip(SubSeq(s, 1, Len(s) - 1))
    ELSE s

ExportDir ==
    <<"/", "m", "e", "d", "i", "a", "/", "f", "r", "i", "g", "a", "t", "e",
      "/", "e", "x", "p", "o", "r", "t", "s", "/">>

Mp4 == <<".", "m", "p", "4">>

\* CAMERAS = os.getenv("CAMERAS", ...).split(","): two configured cameras,
\* the second with an underscore in its name and a blank after the comma
CAMERAS == << <<"a">>, <<" ", "b", "_", "c">> >>

(***************************************************************************)
(* Calendar arithmetic of datetime (proleptic Gregorian, process zone UTC) *)
(***************************************************************************)
DaysFromCivil(y, m, d) ==
    LET yy  == IF m <= 2 THEN y - 1 ELSE y
        era == yy \div 400
        yoe == yy - era * 400
        mp  == IF m > 2 THEN m - 3 ELSE m + 9
        doy == ((153 * mp + 2) \div 5) + d - 1
        doe == yoe * 365 + (yoe \div 4) - (yoe \div 100) + doy
    IN  era * 146097 + doe - 719468

CivilFromDays(z) ==
    LET zz  == z + 719468
        era == zz \div 146097
        doe == zz - era * 146097
        yoe == (doe - (doe \div 1460) + (doe \div 36524) - (doe \div 146096)) \div 365
        doy == doe - (365 * yoe + (yoe \div 4) - (yoe \div 100))
        mp  == (5 * doy + 2) \div 153
        d   == doy - ((153 * mp + 2) \div 5) + 1
        m   == IF mp < 10 THEN mp + 3 ELSE mp - 9
        y   == yoe + era * 400
    IN  [year |-> IF m <= 2 THEN y + 1 ELSE y, month |-> m, day |-> d]

IsLeap(y) == (y % 4 = 0 /\ y % 100 # 0) \/ y % 400 = 0

DaysInMonth(y, m) ==
    IF m = 2 THEN (IF IsLeap(y) THEN 29 ELSE 28)
    ELSE IF m \in {4, 6, 9, 11} THEN 30 ELSE 31

\* datetime.fromtimestamp(t).strftime("%Y%m%d_%H%M%S"): how the recording
\* service writes a time into an export's file name
Stamp(t) ==
    LET c   == CivilFromDays(t \div 86400)
        sod == t % 86400
    IN  Pad4(c.year) \o Pad2(c.month) \o Pad2(c.day) \o <<"_">>
        \o Pad2(sod \div 3600) \o Pad2((sod \div 60) % 60) \o Pad2(sod % 60)

(***************************************************************************)
(* datetime.strptime(s, '%Y%m%d%H%M%S'): the format is matched as the      *)
(* regular expression the library builds from it. %Y takes four digits,    *)
(* every other field tries its two-character alternatives before its       *)
(* one-digit one and backtracks when the fields after it cannot match.     *)
(* What the match leaves unread, and a date that does not exist, raise     *)
(* ValueError.                                                             *)
(***************************************************************************)
FieldMax == <<12, 31, 23, 59, 61>>      \* %m %d %H %M %S, two characters

FieldMin == <<1, 1, 0, 0, 0>>

Two(s, pos) == 10 * DigitVal(s[pos]) + DigitVal(s[pos + 1])

NoMatch == [ok |-> FALSE, vals |-> <<>>, end |-> 0]

RECURSIVE MatchFields(_, _, _)
MatchFields(s, pos, k) ==
    IF k > 5 THEN [ok |-> TRUE, vals |-> <<>>, end |-> pos - 1]
    ELSE
    LET two == IF /\ pos + 1 <= Len(s)
                  /\ IsDigit(s[pos]) /\ IsDigit(s[pos + 1])
                  /\ Two(s, pos) >= FieldMin[k] /\ Two(s, pos) <= FieldMax[k]
               THEN LET r == MatchFields(s, pos + 2, k + 1)
                    IN  IF r.ok THEN [r EXCEPT !.vals = <<Two(s, pos)>> \o @]
                        ELSE NoMatch
               ELSE NoMatch
        one == IF /\ pos <= Len(s)
                  /\ IsDigit(s[pos])
                  /\ DigitVal(s[pos]) >= FieldMin[k]
               THEN LET r == MatchFields(s, pos + 1, k + 1)
                    IN  IF r.ok THEN [r EXCEPT !.vals = <<DigitVal(s[pos])>> \o @]
                        ELSE NoMatch
               ELSE NoMatch
        \* %d alone also takes a blank followed by 1-9
        blank == IF /\ k = 2 /\ pos + 1 <= Len(s)
                    /\ s[pos] = " " /\ IsDigit(s[pos + 1])
                    /\ DigitVal(s[pos + 1]) >= 1
                 THEN LET r == MatchFields(s, pos + 2, k + 1)
                      IN  IF r.ok
                          THEN [r EXCEPT !.vals = <<DigitVal(s[pos + 1])>> \o @]
                          ELSE NoMatch
                 ELSE NoMatch
    IN  IF two.ok THEN two ELSE IF one.ok THEN one ELSE blank

ValueError == [ok |-> FALSE, epoch |-> 0]

\* strptime(s, '%Y%m%d%H%M%S') followed by .timestamp() of the naive result
strptime_timestamp(s) ==
    IF ~(Len(s) >= 4 /\ \A i \in 1..4 : IsDigit(s[i])) THEN ValueError
    ELSE
    LET year == 100 * Two(s, 1) + Two(s, 3)
        r    == MatchFields(s, 5, 1)
    IN  IF ~r.ok \/ r.end # Len(s) THEN ValueError
        ELSE IF year < 1 \/ r.vals[2] > DaysInMonth(year, r.vals[1]) \/ r.vals[5] > 59
             THEN ValueError
        ELSE [ok |-> TRUE,
              epoch |-> DaysFromCivil(year, r.vals[1], r.vals[2]) * 86400
                        + r.vals[3] * 3600 + r.vals[4] * 60 + r.vals[5]]

(***************************************************************************)
(* get_s3_path (lines 45-89): the S3 key of an export file, or None with   *)
(* the line of the error it logs.                                          *)
(***************************************************************************)
None == <<>>

\* get_s3_path that takes year, month, day, hour and minute as they come,
\* digits or not
get_s3_path_Unvalidated(video_path) ==
    LET filename  == basename(video_path)
        parts     == split(filename, "_")
        date_str  == parts[2]
        time_part == split(parts[3], "-")[1]
        year      == SubSeq(date_str, 1, 4)
        month     == SubSeq(date_str, 5, 6)
        day       == SubSeq(date_str, 7, 8)
        hour      == SubSeq(time_part, 1, 2)
        minute    == SubSeq(time_part, 3, 4)
    IN  IF ~Contains(filename, "_") \/ ~Contains(filename, "-")
        THEN [key |-> None, log |-> 55]
        ELSE IF Len(parts) < 3
        THEN [key |-> None, log |-> 61]
        ELSE IF Len(date_str) # 8 \/ Len(time_part) # 6
        THEN [key |-> None, log |-> 70]
        ELSE [key |-> parts[1] \o <<"/">> \o year \o <<"/">> \o month \o <<"/">>
                      \o day \o <<"/">> \o hour \o <<"/">> \o minute
                      \o <<"M">> \o Mp4,
              log |-> 0]

\* get_s3_path whose key leaves out the hour
get_s3_path_NoHour(video_path) ==
    LET filename  == basename(video_path)
        parts     == split(filename, "_")
        date_str  == parts[2]
        time_part == split(parts[3], "-")[1]
        year      == SubSeq(date_str, 1, 4)
        month     == SubSeq(date_str, 5, 6)
        day       == SubSeq(date_str, 7, 8)
        hour      == SubSeq(time_part, 1, 2)
        minute    == SubSeq(time_part, 3, 4)
    IN  IF ~Contains(filename, "_") \/ ~Contains(filename, "-")
        THEN [key |-> None, log |-> 55]
        ELSE IF Len(parts) < 3
        THEN [key |-> None, log |-> 61]
        ELSE IF Len(date_str) # 8 \/ Len(time_part) # 6
        THEN [key |-> None, log |-> 70]
        ELSE IF ~(isdigit(year) /\ isdigit(month) /\ isdigit(day)
                  /\ isdigit(hour) /\ isdigit(minute))
        THEN [key |-> None, log |-> 82]
        ELSE [key |-> parts[1] \o <<"/">> \o year \o <<"/">> \o month \o <<"/">>
                      \o day \o <<"/">> \o minute \o <<"M">> \o Mp4,
              log |-> 0]

get_s3_path(video_path) ==
    LET filename  == basename(video_path)
        parts     == split(filename, "_")
        date_str  == parts[2]
        time_part == split(parts[3], "-")[1]
        year      == SubSeq(date_str, 1, 4)
        month     == SubSeq(date_str, 5, 6)
        day       == SubSeq(date_str, 7, 8)
        hour      == SubSeq(time_part, 1, 2)
        minute    == SubSeq(time_part, 3, 4)
    IN  IF ~Contains(filename, "_") \/ ~Contains(filename, "-")
        THEN [key |-> None, log |-> 55]
        ELSE IF Len(parts) < 3
        THEN [key |-> None, log |-> 61]
        ELSE IF Len(date_str) # 8 \/ Len(time_part) # 6
        THEN [key |-> None, log |-> 70]
        ELSE IF ~(isdigit(year) /\ isdigit(month) /\ isdigit(day)
                  /\ isdigit(hour) /\ isdigit(minute))
        THEN [key |-> None, log |-> 82]
        ELSE [key |-> parts[1] \o <<"/">> \o year \o <<"/">> \o month \o <<"/">>
                      \o day \o <<"/">> \o hour \o <<"/">> \o minute
                      \o <<"M">> \o Mp4,
              log |-> 0]

\* A window that starts two minutes back, not twelve
get_past_ten_minute_window_TwoMinutes(t) ==
    LET current_time   == (t - 2 * 60) + 19800
        minute         == (current_time \div 60) % 60
        rounded_minute == (minute \div 10) * 10
        start_time     == current_time - (current_time % 3600) + rounded_minute * 60
        end_time       == start_time + 10 * 60
    IN  <<start_time - 19800, end_time - 19800>>

(***************************************************************************)
(* get_past_ten_minute_window (lines 154-173) at clock reading t: twelve   *)
(* minutes back, minutes rounded down to a multiple of ten in              *)
(* Asia/Kolkata (UTC+05:30), seconds zeroed, ten minutes long.             *)
(***************************************************************************)
get_past_ten_minute_window(t) ==
    LET current_time   == (t - 12 * 60) + 19800     \* wall clock in Asia/Kolkata
        minute         == (current_time \div 60) % 60
        rounded_minute == (minute \div 10) * 10
        start_time     == current_time - (current_time % 3600) + rounded_minute * 60
        end_time       == start_time + 10 * 60
    IN  <<start_time - 19800, end_time - 19800>>

(***************************************************************************)
(* The window handle_stuck_exports reads from a stuck export's file name   *)
(* (lines 267-281): "none" when the name has fewer than four parts (the    *)
(* record is passed over), "raise" when indexing or strptime throws.       *)
(***************************************************************************)
stuck_window(video_path) ==
    LET filename   == basename(video_path)
        parts      == split(filename, "_")
        start_date == parts[2]
        dashed     == split(parts[3], "-")
        start_time == dashed[1]
        end_date   == dashed[2]
        end_time   == parts[4]
        st         == strptime_timestamp(start_date \o start_time)
        en         == strptime_timestamp(end_date \o end_time)
    IN  IF Len(parts) < 4 THEN [kind |-> "none", start |-> 0, end |-> 0]
        ELSE IF Len(dashed) < 2 THEN [kind |-> "raise", start |-> 0, end |-> 0]
        ELSE IF ~st.ok \/ ~en.ok THEN [kind |-> "raise", start |-> 0, end |-> 0]
        ELSE [kind |-> "ok", start |-> st.epoch, end |-> en.epoch]

(***************************************************************************)
(* State.                                                                  *)
(***************************************************************************)
VARIABLES
    tick,        \* index of the current clock reading
    exports,     \* every export record the service has created, by id
    bucket,      \* the S3 bucket: key -> the file uploaded under it
    instances,   \* the scheduler's count of running instances of each job
    inst,        \* the local state of each job instance, by job and slot
    arg,         \* the argument of the function under evaluation, if any
    val          \* the value it returned, or the progress of its evaluation

vars == <<tick, exports, bucket, instances, inst, arg, val>>

Jobs == {"export", "upload_and_cleanup", "handle_stuck_exports"}

Slots == 1..MaxSlots

\* A scheduler that lets two instances of a job run
max_instances_Two(job) == 2

\* scheduler.add_job(...) (lines 332-338): the export job takes the
\* scheduler's default of one instance, the other two state max_instances=1
max_instances(job) == 1

\* stop_after_attempt(3) (lines 92, 131, 145, 176)
stop_after_attempt == 3

\* The clock is read at these instants: the start (16:02 in Asia/Kolkata),
\* then 1801, 1802, ... seconds later.
T0 == DaysFromCivil(2025, 10, 11) * 86400 + 10 * 3600 + 32 * 60

Clock == {T0} \cup {T0 + 1800 + k : k \in 1..MaxTicks}

Now == T0 + (IF tick = 0 THEN 0 ELSE 1800 + tick)

\* An export whose name does not follow the service's pattern ("bad.mp4"),
\* which the service may hold from the start.
Foreign(id) ==
    [id |-> id, camera |-> <<"a">>,
     video_path |-> ExportDir \o <<"b", "a", "d">> \o Mp4,
     in_progress |-> TRUE, date |-> T0, deleted |-> FALSE]

\* The file the service writes for an export:
\* <camera>_<YYYYMMDD>_<HHMMSS>-<YYYYMMDD>_<HHMMSS>_<id>.mp4
VideoPath(id, camera, start, end) ==
    ExportDir \o camera \o <<"_">> \o Stamp(start) \o <<"-">> \o Stamp(end)
    \o <<"_", DigitChars[id + 1]>> \o Mp4

\* The windows, cameras and files that occur within the bounds, and the
\* functions of them, tabulated.
Windows == {get_past_ten_minute_window(t) : t \in Clock}

window == [t \in Clock |-> get_past_ten_minute_window(t)]

camera_names == [i \in DOMAIN CAMERAS |-> strip(CAMERAS[i])]

Requests ==
    (1..MaxExports) \X {camera_names[i] : i \in DOMAIN CAMERAS} \X Windows

video_path == [q \in Requests |-> VideoPath(q[1], q[2], q[3][1], q[3][2])]

Paths == {Foreign(1).video_path} \cup {video_path[q] : q \in Requests}

file_name == [p \in Paths |-> basename(p)]

s3_path == [p \in Paths |-> get_s3_path(ExportDir \o basename(p))]

time_range == [p \in Paths |-> stuck_window(p)]

\* The record the service creates for POST /api/export/<camera>/start/../end/..
NewExport(id, camera, start, end) ==
    [id |-> id, camera |-> camera,
     video_path |-> video_path[<<id, camera, <<start, end>>>>],
     in_progress |-> TRUE, date |-> Now, deleted |-> FALSE]

\* The export of camera i that an earlier pass of Cycle A requested at T0
Earlier(id, i) ==
    [NewExport(id, camera_names[i], window[T0][1], window[T0][2]) EXCEPT !.date = T0]

NoCall == [op |-> "none", id |-> 0, ok |-> FALSE]

\* The call op about export id, which returned (ok) or raised
Call(op, id, ok) == [op |-> op, id |-> id, ok |-> ok]

\* The local state of a job instance. snap, idx and win are the
\* function's variables; ok, deleted and asked record what the pass has
\* done (the ids whose upload or re-submission succeeded, the ids it
\* deleted, the export requests it made); call and logged are the service
\* call and the log lines of the instance's last step.
Fresh ==
    [pc |-> "idle", snap |-> <<>>, idx |-> 0, win |-> <<0, 0>>,
     ok |-> {}, deleted |-> {}, asked |-> {}, call |-> NoCall, logged |-> {}]

\* A line of the log: level, line of the logger call, and the export id and
\* the name (file name, key or camera) the message carries
Line(level, lineno, id, name) ==
    [level |-> level, line |-> lineno, id |-> id, name |-> name]

\* exports holds every record the service has created, in id order, with
\* deleted set once DELETE /api/export/<id> has removed it. The fields of a
\* record other than in_progress never change, so the copy of a record
\* that a job keeps from a listing is kept as the record's id.
Live(id) == id \in 1..Len(exports) /\ ~exports[id].deleted

\* GET /api/exports: the ids of the records the service holds, in id order
ExportList == SelectSeq([i \in 1..Len(exports) |-> i], Live)

Init ==
    /\ tick = 0
    /\ exports \in {<<Foreign(1)>>, <<Earlier(1, 2)>>}
    /\ bucket = <<>>
    /\ instances = [j \in Jobs |-> 0]
    /\ inst = [j \in Jobs |-> [s \in Slots |-> Fresh]]
    /\ arg = <<>>
    /\ val = <<>>

(***************************************************************************)
(* The environment: the clock and the recording service.                   *)
(***************************************************************************)
Tick ==
    /\ tick < MaxTicks
    /\ tick' = tick + 1
    /\ UNCHANGED <<exports, bucket, instances, inst, arg, val>>

\* The service finishes an export: in_progress becomes false.
ServiceFinish ==
    \E id \in DOMAIN exports :
        /\ Live(id)
        /\ exports[id].in_progress
        /\ exports' = [exports EXCEPT ![id].in_progress = FALSE]
        /\ UNCHANGED <<tick, bucket, instances, inst, arg, val>>

(***************************************************************************)
(* The scheduler (lines 329-342): a trigger starts an instance of the job  *)
(* unless max_instances of it are running, in which case the run is        *)
(* skipped.                                                                *)
(***************************************************************************)
FreeSlot(job) == CHOOSE s \in Slots : inst[job][s].pc = "idle"
                                      /\ \A t \in 1..(s - 1) : inst[job][t].pc # "idle"

Schedule(job) ==
    /\ instances[job] < max_instances(job)
    /\ \E s \in Slots : inst[job][s].pc = "idle"
    /\ instances' = [instances EXCEPT ![job] = @ + 1]
    /\ inst' = [inst EXCEPT ![job][FreeSlot(job)] = [Fresh EXCEPT !.pc = "start"]]
    /\ UNCHANGED <<tick, exports, bucket, arg, val>>

\* A trigger fires while max_instances instances are running: the run is
\* skipped and nothing starts.
SkipRun(job) ==
    /\ instances[job] >= max_instances(job)
    /\ UNCHANGED vars

\* The job function has returned: the scheduler releases the instance.
Return(job, s) ==
    /\ inst[job][s].pc = "done"
    /\ instances' = [instances EXCEPT ![job] = @ - 1]
    /\ inst' = [inst EXCEPT ![job][s] = Fresh]
    /\ UNCHANGED <<tick, exports, bucket, arg, val>>

(***************************************************************************)
(* The clients of the recording service and of S3. Each is the set of the  *)
(* outcomes a call can have: whether it returned, the attempts it made,    *)
(* and what it left behind.                                                *)
(*                                                                         *)
(* A @retry function is attempted until an attempt succeeds or             *)
(* stop_after_attempt attempts have failed (lines 92, 131, 145, 176): a    *)
(* call that returns made n attempts of which the first n - 1 failed, a    *)
(* call that raises made stop_after_attempt failed attempts.               *)
(***************************************************************************)
Attempts == 1..stop_after_attempt

\* get_all_exports (lines 131-136)
get_all_exports ==
    {[ok |-> TRUE, attempts |-> n, value |-> ExportList] : n \in Attempts}
    \cup {[ok |-> FALSE, attempts |-> stop_after_attempt, value |-> <<>>]}

\* get_finished_exports (lines 139-142): the records not in progress
get_finished_exports(all) == SelectSeq(all, LAMBDA id : ~exports[id].in_progress)

\* The service accepts an export request and creates its record. The model
\* follows the first MaxExports records; a request accepted after them is
\* acknowledged and its export is not followed.
Accept(camera, start, end) ==
    IF Len(exports) < MaxExports
    THEN Append(exports, NewExport(Len(exports) + 1, camera, start, end))
    ELSE exports

\* export_video (lines 176-198)
export_video(camera, start_time_epoch, end_time_epoch) ==
    {[ok |-> TRUE, attempts |-> n,
      exports |-> Accept(camera, start_time_epoch, end_time_epoch),
      logged |-> {Line("INFO", 198, 0, camera)}] : n \in Attempts}
    \cup {[ok |-> FALSE, attempts |-> stop_after_attempt, exports |-> exports,
           logged |-> {}]}

\* delete_export that swallows the error of a failed request and returns
delete_export_Swallowed(event_id) ==
    (IF Live(event_id)
     THEN {[ok |-> TRUE, attempts |-> n,
            exports |-> [exports EXCEPT ![event_id].deleted = TRUE,
                                        ![event_id].in_progress = FALSE],
            logged |-> {Line("INFO", 150, event_id, <<>>)}] : n \in Attempts}
     ELSE {})
    \cup {[ok |-> TRUE, attempts |-> stop_after_attempt, exports |-> exports,
           logged |-> {}]}

\* delete_export (lines 145-151): the service removes the record, or the
\* request fails (as it does when the record is no longer there)
delete_export(event_id) ==
    (IF Live(event_id)
     THEN {[ok |-> TRUE, attempts |-> n,
            exports |-> [exports EXCEPT ![event_id].deleted = TRUE,
                                        ![event_id].in_progress = FALSE],
            logged |-> {Line("INFO", 150, event_id, <<>>)}] : n \in Attempts}
     ELSE {})
    \cup {[ok |-> FALSE, attempts |-> stop_after_attempt, exports |-> exports,
           logged |-> {}]}

\* An upload_file that returns and stores nothing
upload_file_Lost(local_file_path, s3_key) == bucket

\* s3_client.upload_file (lines 111-119): the object under s3_key is the
\* file, whatever was there before
upload_file(local_file_path, s3_key) ==
    [k \in DOMAIN bucket \cup {s3_key} |->
        IF k = s3_key THEN local_file_path ELSE bucket[k]]

\* upload_to_s3 (lines 92-128). An attempt is upload_file, then head_object
\* on the same key; either may raise, and line 127 logs every failed
\* attempt. A failed attempt whose head_object raised may have left its
\* object in the bucket.
upload_to_s3(local_file_path, s3_key) ==
    {[ok |-> TRUE, attempts |-> n,
      bucket |-> upload_file(local_file_path, s3_key),
      logged |-> (IF n > 1 THEN {Line("ERROR", 127, 0, s3_key)} ELSE {})
                 \cup {Line("INFO", 123, 0, s3_key)}] : n \in Attempts}
    \cup {[ok |-> FALSE, attempts |-> stop_after_attempt, bucket |-> b,
           logged |-> {Line("ERROR", 127, 0, s3_key)}]
          : b \in {bucket, upload_file(local_file_path, s3_key)}}

\* check_internet_connection (lines 35-42): the socket connects, or not
check_internet_connection == BOOLEAN

(***************************************************************************)
(* Helpers of the job steps.                                               *)
(***************************************************************************)
Me(job, s) == inst[job][s]

\* Instance s of job moves to local state r, having made call c and written
\* the log lines.
Step(job, s, r, c, lines) ==
    inst' = [inst EXCEPT ![job][s] = [r EXCEPT !.call = c, !.logged = lines]]

\* A loop whose failed item falls through to the delete
NextItem_FallThrough(r, n) ==
    IF r.pc = "item" THEN [r EXCEPT !.pc = "delete"]
    ELSE IF r.idx < n THEN [r EXCEPT !.idx = @ + 1, !.pc = "item"]
    ELSE [r EXCEPT !.pc = "done"]

\* A loop that a failed item ends
NextItem_Abort(r, n) ==
    IF r.pc = "item" \/ r.idx >= n THEN [r EXCEPT !.pc = "done"]
    ELSE [r EXCEPT !.idx = @ + 1, !.pc = "item"]

\* The loop moves to its next item, or the function returns.
NextItem(r, n) ==
    IF r.idx < n THEN [r EXCEPT !.idx = @ + 1, !.pc = "item"]
    ELSE [r EXCEPT !.pc = "done"]

(***************************************************************************)
(* Cycle A, export() (lines 298-314).                                      *)
(***************************************************************************)
A == "export"

\* lines 302-303: the window is computed once, from the clock
export_start(s) ==
    LET r == Me(A, s)
        w == window[Now]
    IN  /\ r.pc = "start"
        /\ Step(A, s, [r EXCEPT !.pc = "item", !.idx = 1, !.win = w],
                NoCall, {Line("INFO", 303, 0, <<>>)})
        /\ UNCHANGED <<tick, exports, bucket, instances, arg, val>>

\* lines 306-311: export_video for the camera at idx, its name stripped
\* (camera.strip()); a camera whose
\* request fails is logged and the loop goes on
export_camera(s) ==
    LET r      == Me(A, s)
        camera == CAMERAS[r.idx]
        name   == camera_names[r.idx]
        try    == [r EXCEPT !.asked = @ \cup {<<name, r.win[1], r.win[2]>>}]
    IN  /\ r.pc = "item"
        /\ \E o \in export_video(name, r.win[1], r.win[2]) :
              /\ exports' = o.exports
              /\ Step(A, s, NextItem(try, Len(CAMERAS)),
                      Call("export_video", 0, o.ok),
                      IF o.ok THEN o.logged \cup {Line("INFO", 309, 0, camera)}
                      ELSE {Line("ERROR", 311, 0, camera)})
        /\ UNCHANGED <<tick, bucket, instances, arg, val>>

(***************************************************************************)
(* Cycle B, upload_and_cleanup() (lines 201-238).                          *)
(***************************************************************************)
B == "upload_and_cleanup"

\* A pass that logs the failed connectivity check and goes on
upload_start_NoGate(s) ==
    LET r == Me(B, s)
    IN  /\ r.pc = "start"
        /\ \E online \in check_internet_connection :
              IF online
              THEN Step(B, s, [r EXCEPT !.pc = "list"], Call("connect", 0, TRUE), {})
              ELSE Step(B, s, [r EXCEPT !.pc = "list"], Call("connect", 0, FALSE),
                        {Line("WARNING", 206, 0, <<>>)})
        /\ UNCHANGED <<tick, exports, bucket, instances, arg, val>>

\* lines 205-207: without a connection the cycle is skipped
upload_start(s) ==
    LET r == Me(B, s)
    IN  /\ r.pc = "start"
        /\ \E online \in check_internet_connection :
              IF online
              THEN Step(B, s, [r EXCEPT !.pc = "list"], Call("connect", 0, TRUE), {})
              ELSE Step(B, s, [r EXCEPT !.pc = "done"], Call("connect", 0, FALSE),
                        {Line("WARNING", 206, 0, <<>>)})
        /\ UNCHANGED <<tick, exports, bucket, instances, arg, val>>

\* lines 209-210: the finished exports; when get_all_exports raises the
\* error reaches line 238
upload_list(s) ==
    LET r == Me(B, s)
    IN  /\ r.pc = "list"
        /\ \E o \in get_all_exports :
              LET finished_exports == get_finished_exports(o.value)
              IN  IF o.ok
                  THEN Step(B, s, NextItem([r EXCEPT !.snap = finished_exports],
                                           Len(finished_exports)),
                            Call("get_all_exports", 0, TRUE),
                            {Line("INFO", 210, 0, <<>>)})
                  ELSE Step(B, s, [r EXCEPT !.pc = "done"],
                            Call("get_all_exports", 0, FALSE),
                            {Line("ERROR", 238, 0, <<>>)})
        /\ UNCHANGED <<tick, exports, bucket, instances, arg, val>>

\* lines 213-231 and 234-235: the file must exist and its name must give a
\* key; then upload_to_s3. Whether the file is in the export directory is
\* the file system's answer at the time of the check.
upload_item(s) ==
    LET r               == Me(B, s)
        export          == exports[r.snap[r.idx]]
        event_id        == export.id
        filename        == file_name[export.video_path]
        local_file_path == ExportDir \o filename
        s3              == s3_path[export.video_path]
    IN  /\ r.pc = "item"
        /\ \E exists \in BOOLEAN :
           IF ~exists
           THEN /\ Step(B, s, NextItem(r, Len(r.snap)), NoCall,
                        {Line("ERROR", 220, 0, local_file_path)})
                /\ UNCHANGED bucket
           ELSE IF s3.key = None
           THEN /\ Step(B, s, NextItem(r, Len(r.snap)), NoCall,
                        {Line("ERROR", s3.log, 0, filename),
                         Line("ERROR", 225, event_id, filename)})
                /\ UNCHANGED bucket
           ELSE \E o \in upload_to_s3(local_file_path, s3.key) :
                /\ bucket' = o.bucket
                /\ IF o.ok
                   THEN Step(B, s, [r EXCEPT !.pc = "delete", !.ok = @ \cup {event_id}],
                             Call("upload_to_s3", event_id, TRUE),
                             {Line("INFO", 228, event_id, s3.key)} \cup o.logged)
                   ELSE Step(B, s, NextItem(r, Len(r.snap)),
                             Call("upload_to_s3", event_id, FALSE),
                             {Line("INFO", 228, event_id, s3.key)} \cup o.logged
                             \cup {Line("ERROR", 235, event_id, <<>>)})
        /\ UNCHANGED <<tick, exports, instances, arg, val>>

\* delete_export called by instance s of job for the record at idx; done is
\* the line logged after the delete, failed the line of the except clause
Delete(job, s, done, failed) ==
    LET r        == Me(job, s)
        event_id == exports[r.snap[r.idx]].id
    IN  /\ r.pc = "delete"
        /\ \E o \in delete_export(event_id) :
              /\ exports' = o.exports
              /\ IF o.ok
                 THEN Step(job, s,
                           NextItem([r EXCEPT !.deleted = @ \cup {event_id}], Len(r.snap)),
                           Call("delete_export", event_id, TRUE),
                           o.logged \cup {Line("INFO", done, event_id, <<>>)})
                 ELSE Step(job, s, NextItem(r, Len(r.snap)),
                           Call("delete_export", event_id, FALSE),
                           {Line("ERROR", failed, event_id, <<>>)})
        /\ UNCHANGED <<tick, bucket, instances, arg, val>>

\* lines 232-235
upload_delete(s) == Delete(B, s, 233, 235)

(***************************************************************************)
(* Cycle C, handle_stuck_exports() (lines 241-295).                        *)
(***************************************************************************)
C == "handle_stuck_exports"

\* A record counted as stuck from 1800 seconds on
IsStuck_AtLeast(e, current_time) == e.in_progress /\ current_time - e.date >= 1800

\* lines 248-256: in progress and more than 1800 seconds old
IsStuck(e, current_time) == e.in_progress /\ current_time - e.date > 1800

stuck_exports(all, current_time) ==
    SelectSeq(all, LAMBDA id : IsStuck(exports[id], current_time))

\* lines 244-261: get_all_exports, then the stuck records of its result;
\* when the call raises the error reaches line 295
stuck_list(s) ==
    LET r == Me(C, s)
    IN  /\ r.pc = "start"
        /\ \E o \in get_all_exports :
              LET stuck == stuck_exports(o.value, Now)
              IN  IF o.ok
                  THEN Step(C, s, NextItem([r EXCEPT !.snap = stuck], Len(stuck)),
                            Call("get_all_exports", 0, TRUE),
                            IF stuck = <<>> THEN {} ELSE {Line("INFO", 261, 0, <<>>)})
                  ELSE Step(C, s, [r EXCEPT !.pc = "done"],
                            Call("get_all_exports", 0, FALSE),
                            {Line("ERROR", 295, 0, <<>>)})
        /\ UNCHANGED <<tick, exports, bucket, instances, arg, val>>

\* lines 265-285 and 291-292: the window is read from the file name, then
\* export_video re-submits it. A name of fewer than four parts is passed
\* over; a name that cannot be read, or a request that fails, is logged.
stuck_item(s) ==
    LET r        == Me(C, s)
        export   == exports[r.snap[r.idx]]
        event_id == export.id
        camera   == export.camera
        w        == time_range[export.video_path]
    IN  /\ r.pc = "item"
        /\ IF w.kind = "none"
           THEN /\ Step(C, s, NextItem(r, Len(r.snap)), NoCall, {})
                /\ UNCHANGED exports
           ELSE IF w.kind = "raise"
           THEN /\ Step(C, s, NextItem(r, Len(r.snap)), NoCall,
                        {Line("ERROR", 292, event_id, <<>>)})
                /\ UNCHANGED exports
           ELSE \E o \in export_video(camera, w.start, w.end) :
                LET try == [r EXCEPT !.win = <<w.start, w.end>>,
                                     !.asked = @ \cup {<<camera, w.start, w.end>>}]
                IN  /\ exports' = o.exports
                    /\ IF o.ok
                       THEN Step(C, s, [try EXCEPT !.pc = "delete", !.ok = @ \cup {event_id}],
                                 Call("export_video", event_id, TRUE),
                                 o.logged \cup {Line("INFO", 285, 0, camera)})
                       ELSE Step(C, s, NextItem(try, Len(r.snap)),
                                 Call("export_video", event_id, FALSE),
                                 {Line("ERROR", 292, event_id, <<>>)})
        /\ UNCHANGED <<tick, bucket, instances, arg, val>>

\* lines 288-292
stuck_delete(s) == Delete(C, s, 289, 292)

(***************************************************************************)
(* The system.                                                             *)
(***************************************************************************)
Trigger == \E job \in Jobs : Schedule(job)

Missed == \E job \in Jobs : SkipRun(job)

Returned == \E job \in Jobs, s \in Slots : Return(job, s)

CycleA == \E s \in Slots : export_start(s) \/ export_camera(s)

CycleB == \E s \in Slots : upload_start(s) \/ upload_list(s) \/ upload_item(s)
                           \/ upload_delete(s)

CycleC == \E s \in Slots : stuck_list(s) \/ stuck_item(s) \/ stuck_delete(s)

Next ==
    \/ Tick
    \/ ServiceFinish
    \/ Trigger
    \/ Missed
    \/ Returned
    \/ CycleA
    \/ CycleB
    \/ CycleC

Spec == Init /\ [][Next]_vars

(***************************************************************************)
(* Cycles B and C over exports that Cycle A requested earlier: the         *)
(* behaviours in which the scheduler keeps running (lines 329-342). The    *)
(* interval triggers keep firing, a started job function runs to its       *)
(* return, and no service call fails for ever: a call that is made again   *)
(* and again returns again and again. The service need not ever finish an  *)
(* export.                                                                 *)
(***************************************************************************)
Passes == {B, C}

\* The records the service may hold as its id-th from earlier passes
Held(id) == {Foreign(id)} \cup {Earlier(id, i) : i \in DOMAIN CAMERAS}

RECURSIVE HeldLists(_)
HeldLists(n) ==
    IF n = 0 THEN {<<>>}
    ELSE {Append(l, r) : l \in HeldLists(n - 1), r \in Held(n)}

InitPasses ==
    /\ tick = 0
    /\ exports \in UNION {HeldLists(n) : n \in 1..MaxExports}
    /\ bucket = <<>>
    /\ instances = [j \in Jobs |-> 0]
    /\ inst = [j \in Jobs |-> [s \in Slots |-> Fresh]]
    /\ arg = <<>>
    /\ val = <<>>

NextPasses ==
    \/ Tick
    \/ ServiceFinish
    \/ \E job \in Passes : Schedule(job)
    \/ \E job \in Passes : SkipRun(job)
    \/ \E job \in Passes, s \in Slots : Return(job, s)
    \/ CycleB
    \/ CycleC

\* Some instance of job takes the step whose service call returns.
Returns(job, step(_)) == \E s \in Slots : step(s) /\ inst'[job][s].call.ok

Fairness ==
    /\ \A job \in Passes : WF_vars(Schedule(job))
    /\ \A job \in Passes : WF_vars(\E s \in Slots : Return(job, s))
    /\ WF_vars(CycleB) /\ WF_vars(CycleC)
    /\ SF_vars(Returns(B, upload_start))
    /\ SF_vars(Returns(B, upload_list))
    /\ SF_vars(Returns(B, upload_item))
    /\ SF_vars(Returns(B, upload_delete))
    /\ SF_vars(Returns(C, stuck_list))
    /\ SF_vars(Returns(C, stuck_item))
    /\ SF_vars(Returns(C, stuck_delete))

FairPasses == InitPasses /\ [][NextPasses]_vars /\ Fairness

(***************************************************************************)
(* Deletion follows success (C1, C2).                                      *)
(***************************************************************************)
\* C1: whatever the interleaving of the three cycles, a pass calls
\* delete_export for a record only when, earlier in the same pass,
\* upload_to_s3 (Cycle B) or the export_video re-submission (Cycle C)
\* returned for that record; Cycle A never calls it.
C1_DeleteOnlyAfterSuccess ==
    \A job \in Jobs, s \in Slots :
        inst[job][s].call.op = "delete_export"
            => /\ job \in Passes
               /\ inst[job][s].call.id \in inst[job][s].ok

\* Cycle B has just deleted a record while Cycle A and Cycle C are running.
C1_Witness ==
    \E s, t, u \in Slots :
        /\ inst[B][s].call.op = "delete_export"
        /\ inst[B][s].call.ok
        /\ inst[A][t].pc = "item"
        /\ inst[C][u].pc \in {"item", "delete"}

\* The service removes record id in this step.
Removed(id) ==
    /\ id \in DOMAIN exports
    /\ ~exports[id].deleted
    /\ exports'[id].deleted

\* C2, amended: a pass of Cycle B or C removes a record from the service
\* exactly in a step where its delete_export call for the record returns,
\* the call following a success (upload and verification, or
\* re-submission) for that record in the same pass.
C2_DeletedIffSuccessAndDeleteReturned ==
    [][\A job \in Passes, s \in Slots, id \in 1..MaxExports :
          LET r  == inst[job][s]
              r2 == inst'[job][s]
          IN  (r2 # r /\ Removed(id))
              <=> /\ r2 # r
                  /\ r.pc = "delete"
                  /\ id \in r.ok
                  /\ r2.call = Call("delete_export", id, TRUE)
                  /\ id \in r2.deleted]_vars

\* Cycle C has re-submitted a stuck record and deleted it.
C2_Witness ==
    \E s \in Slots, id \in 1..MaxExports :
        /\ inst[C][s].call = Call("delete_export", id, TRUE)
        /\ id \in inst[C][s].deleted
        /\ id \in DOMAIN exports
        /\ exports[id].deleted

\* C2 as stated: when a pass ends, the records it deleted are the records
\* whose upload or re-submission succeeded in it.
C2_DeletedIffSuccess ==
    \A job \in Passes, s \in Slots :
        inst[job][s].pc = "done" => inst[job][s].deleted = inst[job][s].ok

(***************************************************************************)
(* Progress (C3, C4).                                                      *)
(***************************************************************************)
\* The service holds record id, in progress for more than 1800 seconds.
Stuck(id) ==
    /\ id \in DOMAIN exports
    /\ Live(id)
    /\ IsStuck(exports[id], Now)

\* C3: while Cycle C keeps being invoked and the service calls keep
\* returning, no stuck record stays in place: it is re-requested and
\* deleted (or the service finishes it after all).
C3_StuckEventuallyHandled ==
    \A id \in 1..MaxExports : [](Stuck(id) => <>(~Stuck(id)))

\* What does hold of C3: a stuck record whose file name gives a time range
\* does not stay in place.
C3_ParsableEventuallyHandled ==
    \A id \in 1..MaxExports :
        []((Stuck(id) /\ time_range[exports[id].video_path].kind = "ok")
           => <>(~Stuck(id)))

\* The service holds record id, finished, and its file name gives a key.
FinishedValid(id) ==
    /\ id \in DOMAIN exports
    /\ Live(id)
    /\ ~exports[id].in_progress
    /\ s3_path[exports[id].video_path].key # None

\* The file of record id is in the bucket under its key and the record is
\* gone from the service.
Archived(id) ==
    /\ id \in DOMAIN exports
    /\ exports[id].deleted
    /\ LET s3 == s3_path[exports[id].video_path]
       IN  /\ s3.key \in DOMAIN bucket
           /\ bucket[s3.key] = ExportDir \o file_name[exports[id].video_path]

\* C4: while Cycle B keeps being invoked and its calls keep returning, a
\* finished export whose file name gives a key is eventually uploaded,
\* verified and deleted.
C4_FinishedEventuallyArchived ==
    \A id \in 1..MaxExports : [](FinishedValid(id) => <>Archived(id))

\* What does hold of C4: the export is archived unless a running pass of
\* Cycle C listed it as stuck before it finished.
C4_ArchivedUnlessListedStuck ==
    \A id \in 1..MaxExports :
        []((FinishedValid(id)
            /\ \A s \in Slots : \A i \in DOMAIN inst[C][s].snap :
                  inst[C][s].snap[i] # id)
           => <>Archived(id))

(***************************************************************************)
(* Non-overlap (C5).                                                       *)
(***************************************************************************)
Running(job) == {s \in Slots : inst[job][s].pc # "idle"}

\* C5: at most one instance of Cycle B and at most one instance of Cycle C
\* is running at any time.
C5_AtMostOneInFlight ==
    \A job \in Passes : Cardinality(Running(job)) <= 1

\* A trigger of Cycle B and a trigger of Cycle C both find an instance of
\* their job in the middle of its loop: both runs are skipped.
C5_Witness ==
    /\ ENABLED SkipRun(B)
    /\ ENABLED SkipRun(C)
    /\ \E s, t \in Slots : inst[B][s].pc = "delete" /\ inst[C][t].pc = "item"

(***************************************************************************)
(* Isolation of the items of a pass (C6, C7, C8).                          *)
(***************************************************************************)
\* C6: a pass of Cycle B ends only when its loop has taken up every
\* finished export of its listing, whatever failed for the others; until
\* then it is at one of them, and the ones it uploaded or deleted are
\* among those it has taken up.
C6_UploadLoopTakesEveryItem ==
    \A s \in Slots :
        LET r == inst[B][s]
        IN  /\ r.pc = "done" => r.idx = Len(r.snap)
            /\ r.pc \in {"item", "delete"} => r.idx \in DOMAIN r.snap
            /\ r.ok \subseteq {r.snap[i] : i \in 1..r.idx}
            /\ r.deleted \subseteq r.ok

\* A pass of Cycle B has ended: the first export of its listing failed, the
\* second was uploaded and deleted.
C6_Witness ==
    \E s \in Slots :
        LET r == inst[B][s]
        IN  /\ r.pc = "done"
            /\ Len(r.snap) = 2
            /\ r.snap[1] \notin r.ok
            /\ r.snap[2] \in r.deleted

\* C7: a pass of Cycle C ends only when its loop has taken up every stuck
\* record of its listing, whatever failed for the others; until then it is
\* at one of them, and the ones it re-submitted or deleted are among those
\* it has taken up.
C7_StuckLoopTakesEveryItem ==
    \A s \in Slots :
        LET r == inst[C][s]
        IN  /\ r.pc = "done" => r.idx = Len(r.snap)
            /\ r.pc \in {"item", "delete"} => r.idx \in DOMAIN r.snap
            /\ r.ok \subseteq {r.snap[i] : i \in 1..r.idx}
            /\ r.deleted \subseteq r.ok

\* A pass of Cycle C has ended: the first stuck record of its listing was
\* left in place, the second was re-submitted and deleted.
C7_Witness ==
    \E s \in Slots :
        LET r == inst[C][s]
        IN  /\ r.pc = "done"
            /\ Len(r.snap) = 2
            /\ r.snap[1] \notin r.ok
            /\ r.snap[2] \in r.deleted

\* The requests a pass of Cycle A makes for the first n cameras with the
\* window win
RequestsFor(n, win) == {<<camera_names[i], win[1], win[2]>> : i \in 1..n}

\* C8: a pass of Cycle A requests an export for every configured camera
\* with the one window it computed at its start, whether or not the
\* requests for the cameras before it returned.
C8_EveryCameraSameWindow ==
    \A s \in Slots :
        LET r == inst[A][s]
        IN  /\ r.pc = "item" => /\ r.idx \in DOMAIN CAMERAS
                                /\ r.asked = RequestsFor(r.idx - 1, r.win)
            /\ r.pc = "done" => r.asked = RequestsFor(Len(CAMERAS), r.win)

\* A pass of Cycle A has ended: the request for the first camera failed and
\* the request for the second created record 2.
C8_Witness ==
    \E s \in Slots :
        LET r == inst[A][s]
        IN  /\ r.pc = "done"
            /\ Len(exports) = 2
            /\ exports[2].video_path
                 = video_path[<<2, camera_names[2], r.win>>]

(***************************************************************************)
(* Logging (C9).                                                           *)
(***************************************************************************)
\* A line at WARNING or ERROR level that carries the id, the file name or
\* the local path of record id
Reported(lines, id) ==
    \E l \in lines :
        /\ l.level \in {"WARNING", "ERROR"}
        /\ \/ l.id = id
           \/ l.name = file_name[exports[id].video_path]
           \/ l.name = ExportDir \o file_name[exports[id].video_path]

\* C9: a step of a pass that leaves the record it is at (no upload, no
\* re-submission, or no delete) writes a log line that identifies the
\* record.
C9_NoSilentSkip ==
    [][\A job \in Passes, s \in Slots :
          LET r  == inst[job][s]
              r2 == inst'[job][s]
              id == r.snap[r.idx]
          IN  (/\ r.pc \in {"item", "delete"}
               /\ r2 # r
               /\ r2.pc # "delete"
               /\ id \notin r2.deleted)
              => Reported(r2.logged, id)]_vars

(***************************************************************************)
(* The connectivity gate (C10).                                            *)
(***************************************************************************)
Offline == Call("connect", 0, FALSE)

\* C10: the step of Cycle B in which the connectivity check fails ends the
\* pass and changes neither the service's records nor the bucket; the pass
\* has listed, uploaded and deleted nothing, and all it does next is
\* return.
C10_OfflinePassDoesNothing ==
    [][\A s \in Slots :
          LET r  == inst[B][s]
              r2 == inst'[B][s]
          IN  /\ (r2 # r /\ r2.call = Offline)
                   => /\ r2.pc = "done"
                      /\ r2.snap = <<>> /\ r2.ok = {} /\ r2.deleted = {}
                      /\ exports' = exports
                      /\ bucket' = bucket
              /\ (r2 # r /\ r.call = Offline) => r2 = Fresh]_vars

\* The connectivity check has failed while the service holds a finished
\* export that a pass would upload.
C10_Witness ==
    /\ \E s \in Slots : inst[B][s].call = Offline /\ inst[B][s].pc = "done"
    /\ \E id \in 1..MaxExports : FinishedValid(id)

(***************************************************************************)
(* A record that Cycle B cannot upload is passed over (C11).               *)
(***************************************************************************)
\* The step of instance s of Cycle B, from r to r2, passes over its item:
\* the file is not there (line 220) or its name gives no key (line 225).
PassedOver(r, r2) ==
    /\ r.pc = "item"
    /\ r2 # r
    /\ \/ s3_path[exports[r.snap[r.idx]].video_path].key = None
       \/ \E l \in r2.logged : l.line = 220

\* C11: a step of Cycle B at a finished record whose file is missing or
\* whose name gives no key makes no upload and no delete, in every pass:
\* the records and the bucket are as before, the pass counts the record
\* neither as uploaded nor as deleted, and it goes on to its next item.
C11_UnmappableRecordPassedOver ==
    [][\A s \in Slots :
          LET r  == inst[B][s]
              r2 == inst'[B][s]
          IN  PassedOver(r, r2) =>
                /\ r2.call = NoCall
                /\ exports' = exports
                /\ bucket' = bucket
                /\ r2.ok = r.ok /\ r2.deleted = r.deleted
                /\ \/ r2.pc = "done" /\ r.idx = Len(r.snap)
                   \/ r2.pc = "item" /\ r2.idx = r.idx + 1]_vars

\* A pass over two finished records has returned: the name of the first
\* gives no key, the file of the second was missing, and both are still
\* with the service.
C11_Witness ==
    \E s \in Slots :
        LET r == inst[B][s]
        IN  /\ r.pc = "done" /\ r.snap = <<1, 2>> /\ r.idx = 2
            /\ s3_path[exports[1].video_path].key = None
            /\ s3_path[exports[2].video_path].key # None
            /\ \E l \in r.logged : l.line = 220
            /\ r.ok = {} /\ r.deleted = {}
            /\ Live(1) /\ Live(2)
            /\ ~exports[1].in_progress /\ ~exports[2].in_progress

(***************************************************************************)
(* The functions of the engine evaluated on their own. arg holds the       *)
(* argument; val is <<>> before the call and holds the value returned      *)
(* after it; the jobs are at rest.                                         *)
(***************************************************************************)
AtRest ==
    /\ tick = 0
    /\ exports = <<>>
    /\ bucket = <<>>
    /\ instances = [j \in Jobs |-> 0]
    /\ inst = [j \in Jobs |-> [s \in Slots |-> Fresh]]

jobs == <<tick, exports, bucket, instances, inst>>

(***************************************************************************)
(* get_past_ten_minute_window at any second of two stretches of the clock: *)
(* from 15:59 in Asia/Kolkata on, across the hour, and from 23:59 on,      *)
(* across the day (C12).                                                   *)
(***************************************************************************)
Midnight == DaysFromCivil(2025, 10, 11) * 86400 + 18 * 3600 + 30 * 60

Instants ==
    {T0 - 180 + k : k \in 0..MaxSeconds} \cup {Midnight - 60 + k : k \in 0..MaxSeconds}

InitWindow ==
    /\ AtRest
    /\ arg \in Instants
    /\ val = <<>>

\* line 157 reads the clock, lines 158-171 compute the window
CallWindow ==
    /\ val = <<>>
    /\ val' = <<get_past_ten_minute_window(arg)>>
    /\ UNCHANGED <<jobs, arg>>

NextWindow == CallWindow

WindowSpec == InitWindow /\ [][NextWindow]_vars

\* C12: the window returned at clock reading now is 600 seconds long,
\* starts on a ten-minute boundary (minute a multiple of ten, second zero,
\* in Asia/Kolkata) and ends at or before now - 120.
C12_WindowShape ==
    val # <<>> =>
        LET start == val[1][1]
            end   == val[1][2]
            local == start + 19800
        IN  /\ end - start = 600
            /\ ((local \div 60) % 60) % 10 = 0
            /\ local % 60 = 0
            /\ end <= arg - 120

\* The window of a call at second 0 of minute 2: it ends exactly 120
\* seconds before the call.
C12_Witness ==
    /\ val # <<>>
    /\ arg = T0
    /\ val[1][2] = arg - 120

(***************************************************************************)
(* get_s3_path on file names that do and do not follow the format of       *)
(* lines 51-52 (C13).                                                      *)
(***************************************************************************)
\* camera_YYYYMMDD_HHMMSS-YYYYMMDD_HHMMSS_randomid.mp4 (line 51), put
\* together from its pieces
FileName(camera, date, time, end, suffix, ext) ==
    camera \o <<"_">> \o date \o <<"_">> \o time \o <<"-">> \o end
    \o <<"_">> \o suffix \o ext

OddNames ==
    {<<"b", "a", "d", ".", "m", "p", "4">>,
     <<"a", "_", "b", ".", "m", "p", "4">>,
     <<"c", "a", "m", "_", "2", "0", "2", "5", "1", "0", "1", "_", "1", "6", "0", "0", "0", "0", "-", "x", "_", "1", ".", "m", "p", "4">>,
     <<"a", "-", "b", ".", "m", "p", "4">>,
     <<"a", "_", "b", "-", "c", ".", "m", "p", "4">>,
     <<"a", "_", "2", "0", "2", "5", "1", "0", "1", "1", "_", "1", "6", "0", "0", "0", "0", "_", "1", ".", "m", "p", "4">>,
     <<"a", "_", "-", "_">>}

SomeDates ==
    {<<"2", "0", "2", "5", "1", "0", "1", "1">>,
     <<"2", "0", "2", "5", "1", "0", "1">>,
     <<"2", "0", "2", "5", "1", "0", "1", "1", "1">>,
     <<"2", "0", "2", "5", "x", "0", "1", "1">>,
     <<"x", "0", "2", "5", "1", "0", "1", "1">>,
     <<"2", "0", "2", "5", "1", "o", "1", "1">>,
     <<"2", "0", "2", "5", "1", "0", "1", "x">>}

SomeTimes ==
    {<<"1", "6", "0", "0", "0", "0">>,
     <<"1", "6", "0", "0", "0">>,
     <<"1", "6", "0", "0", "0", "0", "0">>,
     <<"1", "x", "0", "0", "0", "0">>,
     <<"1", "6", "x", "0", "0", "0">>,
     <<"1", "6", "0", "x", "0", "0">>,
     <<"1", "6", "0", "0", "x", "0">>}

SomeEnds ==
    {<<"2", "0", "2", "5", "1", "0", "1", "1", "_", "1", "7", "0", "0", "0", "0">>,
     <<"x">>}

FileNames ==
    OddNames
    \cup {FileName(<<"a">>, d, t, e, <<"1">>, Mp4) :
            d \in SomeDates, t \in SomeTimes, e \in SomeEnds}

\* The video_path of an export record: the file in the export directory,
\* or the bare name
VideoPaths == FileNames \cup {ExportDir \o f : f \in FileNames}

InitPath ==
    /\ AtRest
    /\ arg \in VideoPaths
    /\ val = <<>>

CallPath ==
    /\ val = <<>>
    /\ val' = <<get_s3_path(arg)>>
    /\ UNCHANGED <<jobs, arg>>

NextPath == CallPath

PathSpec == InitPath /\ [][NextPath]_vars

\* The file name has fewer than three parts between underscores, or its
\* date part is not 8 characters, or its start time (the third part up to
\* the dash) is not 6 characters, or year, month, day, hour or minute is
\* not all digits.
Malformed(filename) ==
    LET parts == split(filename, "_")
    IN  \/ Len(parts) < 3
        \/ Len(parts[2]) # 8
        \/ Len(split(parts[3], "-")[1]) # 6
        \/ ~isdigit(parts[2])
        \/ ~isdigit(SubSeq(split(parts[3], "-")[1], 1, 4))

CameraNames == {<<"r", "o", "a", "d", "s", "i", "d", "e">>} \cup {camera_names[i] : i \in DOMAIN CAMERAS}

StartDates ==
    {<<"2", "0", "2", "5", "1", "0", "1", "1">>,
     <<"2", "0", "2", "5", "1", "0", "1", "2">>,
     <<"2", "0", "2", "5", "1", "1", "1", "1">>,
     <<"2", "0", "2", "6", "1", "0", "1", "1">>}

StartTimes ==
    {<<"1", "6", "0", "0", "0", "0">>,
     <<"1", "6", "0", "0", "5", "9">>,
     <<"1", "6", "0", "1", "0", "0">>,
     <<"1", "7", "0", "0", "0", "0">>}

\* What follows the start in the name: end, random id, extension
Endings ==
    {[end |-> <<"2", "0", "2", "5", "1", "0", "1", "1", "_", "1", "7", "0", "0", "0", "0">>, suffix |-> <<"6", "t", "9", "6", "g", "i">>, ext |-> Mp4],
     [end |-> <<"2", "0", "2", "5", "1", "0", "1", "2", "_", "0", "0", "0", "0", "0", "0">>, suffix |-> <<"1">>,
      ext |-> <<".", "m", "k", "v">>]}

Formed ==
    {[camera |-> c, date |-> d, time |-> t, end |-> e.end, suffix |-> e.suffix,
      ext |-> e.ext] : c \in CameraNames, d \in StartDates, t \in StartTimes,
                       e \in Endings}

PathOf(f) ==
    ExportDir \o FileName(f.camera, f.date, f.time, f.end, f.suffix, f.ext)

InitKey ==
    /\ AtRest
    /\ arg \in Formed \X Formed
    /\ val = <<>>

CallKey ==
    /\ val = <<>>
    /\ val' = <<get_s3_path(PathOf(arg[1])), get_s3_path(PathOf(arg[2]))>>
    /\ UNCHANGED <<jobs, arg>>

NextKey == CallKey

KeySpec == InitKey /\ [][NextKey]_vars

\* <camera>/<YYYY>/<MM>/<DD>/<HH>/<MM>M.mp4 of the camera and the start
KeyOf(f) ==
    f.camera \o <<"/">> \o SubSeq(f.date, 1, 4) \o <<"/">> \o SubSeq(f.date, 5, 6)
    \o <<"/">> \o SubSeq(f.date, 7, 8) \o <<"/">> \o SubSeq(f.time, 1, 2)
    \o <<"/">> \o SubSeq(f.time, 3, 4) \o <<"M">> \o Mp4

\* C14: for every file name <camera>_<YYYYMMDD>_<HHMMSS>-<YYYYMMDD>_<HHMMSS>_
\* <suffix>.<ext> get_s3_path returns <camera>/<YYYY>/<MM>/<DD>/<HH>/<MM>M.mp4,
\* the key of the camera and of the start's date, hour and minute alone.
C14_KeyFromCameraAndStart ==
    val # <<>> =>
        /\ val[1].key = KeyOf(arg[1])
        /\ val[2].key = KeyOf(arg[2])

\* The same for the cameras whose name holds no underscore
C14_KeyFromPlainCameraAndStart ==
    val # <<>> =>
        \A i \in 1..2 :
            ~Contains(arg[i].camera, "_") => val[i].key = KeyOf(arg[i])

\* roadside_20251011_160000-20251011_170000_6t96gi.mp4 was given the key
\* roadside/2025/10/11/16/00M.mp4
C14_Example ==
    /\ val # <<>>
    /\ PathOf(arg[1]) = ExportDir \o <<"r", "o", "a", "d", "s", "i", "d", "e", "_", "2", "0", "2", "5", "1", "0", "1", "1", "_", "1", "6", "0", "0", "0", "0", "-", "2", "0", "2", "5", "1", "0", "1", "1", "_", "1", "7", "0", "0", "0", "0", "_", "6", "t", "9", "6", "g", "i", ".", "m", "p", "4">>
    /\ val[1].key = <<"r", "o", "a", "d", "s", "i", "d", "e", "/", "2", "0", "2", "5", "/", "1", "0", "/", "1", "1", "/", "1", "6", "/", "0", "0", "M", ".", "m", "p", "4">>

(***************************************************************************)
(* Two names have one key exactly when camera and start minute agree (C15) *)
(***************************************************************************)
SameBucket(f, g) ==
    /\ f.camera = g.camera
    /\ f.date = g.date
    /\ SubSeq(f.time, 1, 4) = SubSeq(g.time, 1, 4)

\* C15: two file names that get_s3_path accepts are given the same key if
\* and only if they have the same camera, year, month, day, hour and
\* minute of the start.
C15_SameKeyIffSameBucket ==
    (val # <<>> /\ val[1].key # None /\ val[2].key # None) =>
        (val[1].key = val[2].key <=> SameBucket(arg[1], arg[2]))

\* Two accepted names that differ in seconds, end, random id and extension
\* were given one key.
C15_Witness ==
    /\ val # <<>>
    /\ val[1].key # None
    /\ val[1].key = val[2].key
    /\ arg[1].time # arg[2].time
    /\ arg[1].end # arg[2].end
    /\ arg[1].suffix # arg[2].suffix
    /\ arg[1].ext # arg[2].ext

(***************************************************************************)
(* One call of a @retry function, attempt by attempt (lines 92, 131, 145,  *)
(* 176). arg is the call: the function and what it is about (the key and   *)
(* file of an upload, the id of a delete, the camera of an export          *)
(* request). val is the attempts made so far, the latest last; an attempt  *)
(* is the calls the function body has made in it, each with its target     *)
(* and whether it returned.                                                *)
(***************************************************************************)
\* The calls of the function body that may raise: upload_to_s3 uploads the
\* file and then asks for the object (lines 111-122); the others send the
\* request and then raise_for_status (lines 134-135, 148-149, 190-196).
Body(fn) ==
    IF fn = "upload_to_s3" THEN <<"upload_file", "head_object">>
    ELSE <<"request", "raise_for_status">>

RetryCalls ==
    {[fn |-> "get_all_exports", on |-> 0, file |-> <<>>]}
    \cup {[fn |-> "export_video", on |-> camera_names[i], file |-> <<>>] :
            i \in DOMAIN CAMERAS}
    \cup {[fn |-> "delete_export", on |-> id, file |-> <<>>] : id \in 1..MaxExports}
    \cup {[fn |-> "upload_to_s3", on |-> s3_path[p].key,
            file |-> ExportDir \o file_name[p]] :
            p \in {q \in Paths : s3_path[q].key # None}}

\* An attempt has raised: its last call did
AttemptFailed(a) == a # <<>> /\ ~a[Len(a)].ok

\* An attempt has returned: every call of the body did
AttemptReturned(fn, a) ==
    Len(a) = Len(Body(fn)) /\ \A i \in 1..Len(a) : a[i].ok

\* tenacity that stops after the fourth attempt
ShouldRetry_Four(tries) ==
    /\ tries # <<>>
    /\ AttemptFailed(tries[Len(tries)])
    /\ Len(tries) < stop_after_attempt + 1

\* tenacity makes another attempt: the last one raised and fewer than
\* stop_after_attempt have been made
ShouldRetry(tries) ==
    /\ tries # <<>>
    /\ AttemptFailed(tries[Len(tries)])
    /\ Len(tries) < stop_after_attempt

\* The call has returned to its caller
CallReturned == val # <<>> /\ AttemptReturned(arg.fn, val[Len(val)])

\* The call has raised to its caller
CallRaised ==
    /\ val # <<>>
    /\ AttemptFailed(val[Len(val)])
    /\ ~ShouldRetry(val)

InitRetry ==
    /\ AtRest
    /\ arg \in RetryCalls
    /\ val = <<>>

\* The first attempt, or a further one after a failed one
BeginAttempt ==
    /\ val = <<>> \/ ShouldRetry(val)
    /\ val' = Append(val, <<>>)
    /\ UNCHANGED <<jobs, arg>>

\* The next call of the body, which returns (ok) or raises; upload_file
\* that returns has put the object under the key
BodyCall ==
    /\ val # <<>>
    /\ LET a    == val[Len(val)]
           call == Body(arg.fn)[Len(a) + 1]
       IN  /\ ~AttemptFailed(a)
           /\ ~AttemptReturned(arg.fn, a)
           /\ \E ok \in BOOLEAN :
                /\ val' = [val EXCEPT ![Len(val)] =
                              Append(a, [call |-> call, on |-> arg.on, ok |-> ok])]
                /\ bucket' = IF call = "upload_file" /\ ok
                             THEN upload_file(arg.file, arg.on)
                             ELSE bucket
    /\ UNCHANGED <<tick, exports, instances, inst, arg>>

NextRetry == BeginAttempt \/ BodyCall

RetrySpec == InitRetry /\ [][NextRetry]_vars

\* C16: a call makes at most 3 attempts; every attempt before the latest
\* failed, so the call returns at its first successful attempt; it raises
\* to its caller only with 3 failed attempts behind it; and an attempt of
\* upload_to_s3 has succeeded only if upload_file and then head_object
\* returned, both for the key of the call.
C16_AtMostThreeAttempts ==
    /\ Len(val) <= 3
    /\ \A i \in 1..(Len(val) - 1) : AttemptFailed(val[i])
    /\ CallRaised => Len(val) = 3 /\ \A i \in 1..3 : AttemptFailed(val[i])
    /\ CallReturned /\ arg.fn = "upload_to_s3" =>
          LET a == val[Len(val)]
          IN  /\ Len(a) = 2
              /\ a[1] = [call |-> "upload_file", on |-> arg.on, ok |-> TRUE]
              /\ a[2] = [call |-> "head_object", on |-> arg.on, ok |-> TRUE]
              /\ arg.on \in DOMAIN bucket /\ bucket[arg.on] = arg.file

\* upload_to_s3 has returned at its third attempt: in the first upload_file
\* raised, in the second head_object did.
C16_Witness ==
    /\ arg.fn = "upload_to_s3"
    /\ CallReturned
    /\ Len(val) = 3
    /\ Len(val[1]) = 1
    /\ Len(val[2]) = 2

(***************************************************************************)
(* Cycle C over records that are 1799, 1800 or 1801 seconds old when the   *)
(* pass reads the clock, in progress or finished (C17).                    *)
(***************************************************************************)
Ages == {1799, 1800, 1801}

\* The export of the first camera that the service has held for age
\* seconds, in progress or finished
Aged(id, age, running) ==
    [Earlier(id, 1) EXCEPT !.date = T0 - age, !.in_progress = running]

RECURSIVE AgedLists(_)
AgedLists(n) ==
    IF n = 0 THEN {<<>>}
    ELSE {Append(l, Aged(n, age, running)) :
            l \in AgedLists(n - 1), age \in Ages, running \in BOOLEAN}

InitAged ==
    /\ tick = 0
    /\ exports \in UNION {AgedLists(n) : n \in 1..MaxExports}
    /\ bucket = <<>>
    /\ instances = [j \in Jobs |-> 0]
    /\ inst = [j \in Jobs |-> [s \in Slots |-> Fresh]]
    /\ arg = <<>>
    /\ val = <<>>

NextAged ==
    \/ ServiceFinish
    \/ Schedule(C)
    \/ SkipRun(C)
    \/ \E s \in Slots : Return(C, s)
    \/ CycleC

AgedSpec == InitAged /\ [][NextAged]_vars

\* The ids in a listing
Ids(snap) == {snap[i] : i \in DOMAIN snap}

\* C17: the records a pass of Cycle C takes as stuck are exactly the
\* records in progress whose age (now - date) is more than 1800 seconds,
\* so none aged 1799 or 1800 and none that is finished; and the pass
\* re-submits and deletes no other record.
C17_StuckIffRunningAndOlderThan1800 ==
    [][\A s \in Slots :
          LET r  == inst[C][s]
              r2 == inst'[C][s]
          IN  /\ (r.pc = "start" /\ r2.call = Call("get_all_exports", 0, TRUE)) =>
                    \A id \in DOMAIN exports :
                        Live(id) =>
                            (id \in Ids(r2.snap)
                               <=> exports[id].in_progress /\ Now - exports[id].date >= 1801)
              /\ r2.ok \cup r2.deleted \subseteq Ids(r2.snap)]_vars

\* A pass has re-submitted and deleted the record aged 1801 seconds and has
\* left alone the record aged 1800 seconds, which is still in progress.
C17_Witness ==
    \E s \in Slots :
        LET r == inst[C][s]
        IN  /\ r.snap = <<2>>
            /\ r.ok = {2} /\ r.deleted = {2}
            /\ Now - exports[2].date = 1801
            /\ Now - exports[1].date = 1800
            /\ Live(1) /\ exports[1].in_progress

(***************************************************************************)
(* The export job under its cron trigger (line 332): minute                *)
(* 2,12,22,32,42,52, second 0, in the zone of the process (UTC). Every     *)
(* trigger is followed by a run of export(), which reads the clock (line   *)
(* 157) less than ten minutes after the trigger's time. arg is the         *)
(* trigger (its time, the clock reading of the run, the count of runs),    *)
(* val the window of that run (C18).                                       *)
(***************************************************************************)
CronMinutes == {2, 12, 22, 32, 42, 52}

\* The least of a non-empty set of instants
Least(S) == CHOOSE t \in S : \A u \in S : t <= u

\* A trigger every twelve minutes of the hour
NextFire_EveryTwelve(t) ==
    Least({f \in {t - (t % 3600) + h * 3600 + m * 60 :
                    h \in {0, 1}, m \in {0, 12, 24, 36, 48}} : f > t})

\* CronTrigger.get_next_fire_time: the first instant after t whose minute
\* is one of CronMinutes and whose second is 0
NextFire(t) ==
    Least({f \in {t - (t % 3600) + h * 3600 + m * 60 :
                    h \in {0, 1}, m \in CronMinutes} : f > t})

\* The seconds by which a run may follow its trigger
Delays == 0..(10 * 60 - 1)

\* The scheduler starts (line 342) a second before 10:42 UTC
InitCron ==
    /\ AtRest
    /\ arg = [fire |-> T0 + 599, now |-> T0 + 599, run |-> 0]
    /\ val = <<>>

\* The next trigger fires and export() computes its window (lines 302-303)
FireExport ==
    /\ arg.run < MaxRuns
    /\ \E d \in Delays :
          LET fire == NextFire(arg.fire)
          IN  /\ arg' = [fire |-> fire, now |-> fire + d, run |-> arg.run + 1]
              /\ val' = <<get_past_ten_minute_window(fire + d)>>
    /\ UNCHANGED jobs

NextCron == FireExport

CronSpec == InitCron /\ [][NextCron]_vars

\* C18: with the triggers at minutes 2, 12, ..., 52 and each run less than
\* ten minutes late, the window of a run starts where the window of the
\* run before it ended.
C18_WindowsTile ==
    [][(val # <<>> /\ arg' # arg) => val'[1][1] = val[1][2]]_vars

\* The run of the 11:02 trigger, 599 seconds late, after the run of the
\* 10:52 trigger: its window is 10:50 to 11:00.
C18_Witness ==
    /\ val # <<>>
    /\ arg.run = 3
    /\ arg.fire = T0 + 1800
    /\ arg.now = arg.fire + 599
    /\ val[1] = <<arg.fire - 720, arg.fire - 120>>

(***************************************************************************)
(* Cycle C deletes from its listing (C19).                                 *)
(***************************************************************************)
\* C19: whenever delete_export of a pass of Cycle C removes a record, the
\* record is in progress at that moment; a record that has finished since
\* the pass listed it is not removed before Cycle B has uploaded it.
C19_StuckDeleteOnlyInProgress ==
    [][\A s \in Slots :
          LET r  == inst[C][s]
              r2 == inst'[C][s]
          IN  (/\ r.pc = "delete"
               /\ r2.call = Call("delete_export", r.snap[r.idx], TRUE)) =>
                  exports[r.snap[r.idx]].in_progress]_vars

(***************************************************************************)
(* What Cycle B deletes is in the bucket (C20).                            *)
(***************************************************************************)
\* C20: no step removes a key from the bucket, and when delete_export of a
\* pass of Cycle B removes a record the bucket holds an object under the
\* key of the record's file name; so for every record that Cycle B has
\* deleted the bucket holds that key ever after.
C20_DeletedByUploadIsStored ==
    [][/\ DOMAIN bucket \subseteq DOMAIN bucket'
       /\ \A s \in Slots :
            LET r   == inst[B][s]
                r2  == inst'[B][s]
                id  == r.snap[r.idx]
                key == s3_path[exports[id].video_path].key
            IN  (/\ r.pc = "delete"
                 /\ r2.call = Call("delete_export", id, TRUE)) =>
                    /\ key # None
                    /\ key \in DOMAIN bucket
                    /\ key \in DOMAIN bucket'
                    /\ exports'[id].deleted]_vars

\* A pass of Cycle B has deleted a record, and the bucket holds the file of
\* that record under its key.
C20_Witness ==
    \E s \in Slots : \E id \in inst[B][s].deleted :
        /\ exports[id].deleted
        /\ s3_path[exports[id].video_path].key \in DOMAIN bucket
        /\ bucket[s3_path[exports[id].video_path].key]
             = ExportDir \o file_name[exports[id].video_path]

====
